---- MODULE Spec2Model ----
(***************************************************************************)
(* Graph colouring: the Graph model (graph.py), the shared colouring       *)
(* contract (interfaces.py) and the three solvers: exact backtracking      *)
(* (brute_force_coloring.py), greedy first-fit (greedy_coloring.py) and    *)
(* Welsh-Powell (welsh_powell_coloring.py), all of src/implementaciones.   *)
(*                                                                         *)
(* One Graph object G is built by add_node/add_edge; one solver variable   *)
(* holds the instance most recently constructed over G or over None.       *)
(* A colouring (a dict Node -> int) is a function from a set of node ids.  *)
(***************************************************************************)
EXTENDS Integers, Sequences, FiniteSets, TLC

\* ---------------------------------------------------------------- bounds
\* Number of distinct node identifiers a caller uses (so at most that many nodes).
MaxNodes == 3
\* Largest wall-clock duration one color_graph() call takes, in clock ticks (at least one).
MaxDuration == 1
\* Largest colour index in a colouring a caller hands to is_valid_coloring.
MaxArgColor == 1
\* How many times the graph is changed under a solver that already has a result.
MaxLateMutations == 1
\* Largest integer in a set handed to get_first_available_color.
MaxColor == 5
\* Largest n of a cycle graph made by create_cycle_graph(n).
MaxCycle == 5
\* Largest n of a path graph made by create_path_graph(n).
MaxPath == 12

\* ---------------------------------------------------------------- identifiers
\* The identifiers callers give to Node(node_id): integers, in this order of use.
\* Their str() forms order differently from their values ("10" < "2").
IdPool == <<10, 2, 1, 3, 20>>
Ids == {IdPool[i] : i \in 1..MaxNodes}

\* Python's None, as a node argument and as a graph argument.
None == -1

\* A string identifier made of digits is written StrIdBase + its digits read as a
\* number: 101 is the string "1", a node different from the integer 1.
StrIdBase == 100

\* The decimal digits of a non-negative integer.
RECURSIVE Digits(_)
Digits(n) == IF n < 10 THEN <<n>> ELSE Digits(n \div 10) \o <<n % 10>>

\* str(n.id): the decimal digits of an integer id, the characters of a string id.
Str(n) == IF n >= StrIdBase THEN Digits(n - StrIdBase) ELSE Digits(n)

\* s < t on Python strings (lexicographic, a proper prefix is smaller).
RECURSIVE StrLess(_, _)
StrLess(s, t) ==
    IF t = <<>> THEN FALSE
    ELSE IF s = <<>> THEN TRUE
    ELSE IF Head(s) # Head(t) THEN Head(s) < Head(t)
    ELSE StrLess(Tail(s), Tail(t))

VARIABLES
    nodes,           \* Graph.nodes: the set of nodes (by id)
    adjacency_list,  \* Graph.adjacency_list: node -> list of neighbours
    iterOrder,       \* the order the held instance has read the set Graph.nodes in
    solver,          \* the solver instance the caller holds
    hist,            \* what the caller has seen of that instance's color_graph() calls
    last,            \* the operation performed last, its arguments and its outcome
    peers            \* solver instances bound to the one graph side by side

vars == <<nodes, adjacency_list, iterOrder, solver, hist, last, peers>>

\* ---------------------------------------------------------------- sequences
Range(f) == {f[x] : x \in DOMAIN f}

\* The lists of the members of S, each member once.
RECURSIVE Perms(_)
Perms(S) ==
    IF S = {} THEN {<<>>}
    ELSE UNION {{<<x>> \o p : p \in Perms(S \ {x})} : x \in S}

\* dict literal {} and a dict with one more / one changed entry
EmptyColoring == [n \in {} |-> 0]
Assign(coloring, node, color) ==
    [n \in (DOMAIN coloring) \cup {node} |-> IF n = node THEN color ELSE coloring[n]]
Delete(coloring, node) == [n \in (DOMAIN coloring) \ {node} |-> coloring[n]]

\* ---------------------------------------------------------------- Graph queries
get_neighbors(node) == adjacency_list[node]

get_nodes == nodes

get_degree(node) == Len(adjacency_list[node])

Max(S) == CHOOSE m \in S : \A x \in S : x <= m

get_max_degree == IF nodes = {} THEN 0 ELSE Max({get_degree(n) : n \in nodes})

\* The sort keys: str(n.id), and (-degree(n), str(n.id)) compared as tuples.
ById(a, b) == StrLess(Str(a), Str(b))

ByDegreeThenId(a, b) ==
    \/ -get_degree(a) < -get_degree(b)
    \/ /\ -get_degree(a) = -get_degree(b)
       /\ StrLess(Str(a), Str(b))

\* sorted(S, key=lambda n: str(n.id)): S in ascending key order, for a set whose
\* identifiers are all integers: the keys of distinct nodes are then distinct, and
\* the list does not depend on the order S is read in. (StableSortById below is
\* the sort for any list, equal keys included.)
RECURSIVE SortedById(_)
SortedById(S) ==
    IF S = {} THEN <<>>
    ELSE LET m == CHOOSE x \in S : \A y \in S \ {x} : ById(x, y)
         IN  <<m>> \o SortedById(S \ {m})

\* sorted(S, key=lambda n: (-degree(n), str(n.id)))
RECURSIVE SortedByDegree(_)
SortedByDegree(S) ==
    IF S = {} THEN <<>>
    ELSE LET m == CHOOSE x \in S : \A y \in S \ {x} : ByDegreeThenId(x, y)
         IN  <<m>> \o SortedByDegree(S \ {m})

\* list.sort(key=...) / sorted(list, key=...): a stable sort, so two entries with
\* equal keys keep the order they have in the list. Insert puts x behind every
\* entry of the sorted list whose key is not larger than the key of x.
RECURSIVE InsertById(_, _)
InsertById(x, sorted) ==
    IF sorted = <<>> THEN <<x>>
    ELSE IF ById(x, Head(sorted)) THEN <<x>> \o sorted
    ELSE <<Head(sorted)>> \o InsertById(x, Tail(sorted))

RECURSIVE InsertByDegree(_, _)
InsertByDegree(x, sorted) ==
    IF sorted = <<>> THEN <<x>>
    ELSE IF ByDegreeThenId(x, Head(sorted)) THEN <<x>> \o sorted
    ELSE <<Head(sorted)>> \o InsertByDegree(x, Tail(sorted))

RECURSIVE StableSortById(_)
StableSortById(list) ==
    IF list = <<>> THEN <<>>
    ELSE InsertById(list[Len(list)], StableSortById(SubSeq(list, 1, Len(list) - 1)))

RECURSIVE StableSortByDegree(_)
StableSortByDegree(list) ==
    IF list = <<>> THEN <<>>
    ELSE InsertByDegree(list[Len(list)], StableSortByDegree(SubSeq(list, 1, Len(list) - 1)))

\* get_edges(): for node in sorted(nodes, key=str(id)), for neighbor in its list,
\* the pair (node, neighbor) when str(node.id) < str(neighbor.id).
RECURSIVE EdgesFrom(_, _)
EdgesFrom(node, nbrs) ==
    IF nbrs = <<>> THEN <<>>
    ELSE (IF StrLess(Str(node), Str(Head(nbrs))) THEN <<(<<node, Head(nbrs)>>)>> ELSE <<>>)
         \o EdgesFrom(node, Tail(nbrs))

RECURSIVE EdgesOver(_)
EdgesOver(order) ==
    IF order = <<>> THEN <<>>
    ELSE EdgesFrom(Head(order), adjacency_list[Head(order)]) \o EdgesOver(Tail(order))

get_edges == EdgesOver(SortedById(nodes))

\* ---------------------------------------------------------------- instances
\* The fields of a solver instance (GraphColoringAlgorithm.__init__ and subclasses).
\* graph is "G", the one Graph object, or "None".
NoSolver == [kind |-> "none", graph |-> "None", coloring |-> EmptyColoring,
             execution_time |-> 0, order_strategy |-> "-"]

NewSolver(kind, graph, order_strategy) ==
    [kind |-> kind, graph |-> graph, coloring |-> EmptyColoring,
     execution_time |-> 0, order_strategy |-> order_strategy]

\* called: a color_graph() call on the instance has returned; ret: what the most
\* recent such call returned; stale: the graph changed after that call;
\* late: how many times the graph changed after the instance's first result.
NoHist == [called |-> FALSE, stale |-> FALSE, late |-> 0, ret |-> EmptyColoring]

NoOp == [op |-> "init", kind |-> "-", outcome |-> "ok", ret |-> EmptyColoring,
         arg |-> EmptyColoring, argNone |-> TRUE, n |-> 0, b |-> FALSE,
         dur |-> 0, impl |-> 0, repeat |-> FALSE, prev |-> EmptyColoring,
         list |-> <<>>, who |-> 0, colors |-> {},
         pc |-> "-", k |-> 0, work |-> EmptyColoring, color |-> 0]

Done(op, kind, outcome) == [NoOp EXCEPT !.op = op, !.kind = kind, !.outcome = outcome]

\* The names of the instances a caller holds side by side, and what it holds
\* under a name: the instance, whether a color_graph() call on it has returned,
\* and how long the most recent such call took.
Instances == {1, 2}

NoPeer == [inst |-> NoSolver, called |-> FALSE, dur |-> 0]

\* ---------------------------------------------------------------- Graph updates
\* The caller changes the graph under an instance that already has a result at
\* most MaxLateMutations times.
MayMutate == ~hist.called \/ hist.late < MaxLateMutations

Mutated == IF hist.called
           THEN [hist EXCEPT !.stale = TRUE, !.late = @ + 1]
           ELSE hist

\* (mutant) no test for a node already present: its adjacency list is started again.
add_node_bad(node) ==
    IF node = None
    THEN /\ last' = Done("add_node", "Graph", "ValueError")
         /\ UNCHANGED <<nodes, adjacency_list, iterOrder, solver, hist, peers>>
    ELSE /\ adjacency_list' = [n \in nodes \cup {node} |->
                                  IF n = node THEN <<>> ELSE adjacency_list[n]]
         /\ nodes' = nodes \cup {node}
         /\ iterOrder' = <<>>
         /\ hist' = Mutated
         /\ last' = Done("add_node", "Graph", "ok")
         /\ UNCHANGED <<solver, peers>>

\* add_node(node): ValueError on None or on a node already present.
add_node(node) ==
    IF node = None \/ node \in nodes
    THEN /\ last' = Done("add_node", "Graph", "ValueError")
         /\ UNCHANGED <<nodes, adjacency_list, iterOrder, solver, hist, peers>>
    ELSE /\ adjacency_list' = [n \in nodes \cup {node} |->
                                  IF n = node THEN <<>> ELSE adjacency_list[n]]
         /\ nodes' = nodes \cup {node}
         /\ iterOrder' = <<>>
         /\ hist' = Mutated
         /\ last' = Done("add_node", "Graph", "ok")
         /\ UNCHANGED <<solver, peers>>

\* (mutant) the membership test always answers "not in the list".
InList_bad(x, list) == FALSE

\* x in list
InList(x, list) == \E i \in 1..Len(list) : list[i] = x

\* add_edge(node1, node2): ValueError on an absent endpoint or a self-loop;
\* an edge already present is left as it is.
add_edge(node1, node2) ==
    IF node1 \notin nodes \/ node2 \notin nodes \/ node1 = node2
    THEN /\ last' = Done("add_edge", "Graph", "ValueError")
         /\ UNCHANGED <<nodes, adjacency_list, iterOrder, solver, hist, peers>>
    ELSE IF ~InList(node2, adjacency_list[node1])
    THEN /\ adjacency_list' = [adjacency_list EXCEPT ![node1] = Append(@, node2),
                                                     ![node2] = Append(@, node1)]
         /\ hist' = Mutated
         /\ last' = Done("add_edge", "Graph", "ok")
         /\ UNCHANGED <<nodes, iterOrder, solver, peers>>
    ELSE /\ last' = Done("add_edge", "Graph", "ok")
         /\ UNCHANGED <<nodes, adjacency_list, iterOrder, solver, hist, peers>>

AddNode == \E node \in Ids \cup {None} : MayMutate /\ add_node(node)

\* The caller adds the edges of its graph in one scan of the pairs of its
\* identifiers (for i: for j > i), first identifier of the pair first. No solver
\* reads the position of a neighbour in an adjacency list, only the members.
PoolIndex(id) == IF id = None THEN 0 ELSE CHOOSE i \in 1..Len(IdPool) : IdPool[i] = id

ScanBefore(a, b, c, d) ==
    \/ PoolIndex(a) < PoolIndex(c)
    \/ a = c /\ PoolIndex(b) <= PoolIndex(d)

InScanOrder(node1, node2) ==
    (node1 \in nodes /\ node2 \in nodes /\ node1 # node2) =>
        /\ PoolIndex(node1) < PoolIndex(node2)
        /\ \A a \in nodes : \A i \in 1..Len(adjacency_list[a]) :
              LET b == adjacency_list[a][i]
              IN  PoolIndex(a) < PoolIndex(b) => ScanBefore(a, b, node1, node2)

AddEdge ==
    \E node1, node2 \in Ids \cup {None} :
        /\ MayMutate
        /\ PoolIndex(node1) <= PoolIndex(node2)
        /\ InScanOrder(node1, node2)
        /\ add_edge(node1, node2)

\* ---------------------------------------------------------------- contract
\* is_valid_coloring(coloring): False as soon as dict.get() gives the same value
\* (a colour, or None for a missing key) for the two ends of an edge of get_edges().
DictGet(coloring, node) == IF node \in DOMAIN coloring THEN coloring[node] ELSE None

is_valid_coloring(coloring) ==
    LET edges == get_edges
    IN  \A i \in 1..Len(edges) :
            ~(DictGet(coloring, edges[i][1]) = DictGet(coloring, edges[i][2]))

\* (mutant) len(self.coloring): the number of coloured nodes.
get_chromaticity_bad == Cardinality(DOMAIN solver.coloring)

\* get_chromaticity(): 0 for an empty dict, else len(set(coloring.values())).
get_chromaticity ==
    IF solver.coloring = EmptyColoring THEN 0
    ELSE Cardinality(Range(solver.coloring))

\* ---------------------------------------------------------------- exact solver
\* (mutant) the test never reports a conflict.
is_safe_partial_coloring_bad(node, coloring) == TRUE

\* _is_safe_partial_coloring(node, coloring)
is_safe_partial_coloring(node, coloring) ==
    LET neighbors == get_neighbors(node)
    IN  \A i \in 1..Len(neighbors) :
            ~(neighbors[i] \in DOMAIN coloring /\ coloring[neighbors[i]] = coloring[node])

\* backtrack(node_index) of _find_valid_coloring_with_k_colors, with its loop
\* "for color in range(k)" as try_colors from the colour it has reached.
\* The result is whether the search succeeded, and the working dict.
RECURSIVE backtrack(_, _, _, _)
RECURSIVE try_colors(_, _, _, _, _)
backtrack(nodeList, k, node_index, coloring) ==
    IF node_index = Len(nodeList)
    THEN [found |-> TRUE, coloring |-> coloring]
    ELSE try_colors(nodeList, k, node_index, 0, coloring)

try_colors(nodeList, k, node_index, color, coloring) ==
    IF color >= k
    THEN [found |-> FALSE, coloring |-> coloring]
    ELSE LET node == nodeList[node_index + 1]
             assigned == Assign(coloring, node, color)
             deeper == IF is_safe_partial_coloring(node, assigned)
                       THEN backtrack(nodeList, k, node_index + 1, assigned)
                       ELSE [found |-> FALSE, coloring |-> assigned]
         IN  IF deeper.found
             THEN deeper
             ELSE try_colors(nodeList, k, node_index, color + 1, Delete(assigned, node))

\* _find_valid_coloring_with_k_colors(nodes, k): found = FALSE is its None.
find_valid_coloring_with_k_colors(nodeList, k) == backtrack(nodeList, k, 0, EmptyColoring)

Min(a, b) == IF a <= b THEN a ELSE b

\* (mutant) min(max_degree, num_nodes): Brooks' bound without its + 1.
upper_bound_bad == Min(get_max_degree, Cardinality(get_nodes))

\* upper_bound = min(max_degree + 1, num_nodes)
upper_bound == Min(get_max_degree + 1, Cardinality(get_nodes))

\* for k in range(1, upper_bound + 1), from the k it has reached.
RECURSIVE try_k(_, _, _)
try_k(nodeList, k, bound) ==
    IF k > bound
    THEN [found |-> FALSE, coloring |-> EmptyColoring]
    ELSE LET valid_coloring == find_valid_coloring_with_k_colors(nodeList, k)
         IN  IF valid_coloring.found THEN valid_coloring ELSE try_k(nodeList, k + 1, bound)

\* (mutant) the colouring found is not stored.
brute_force_impl_bad(nodeList, coloring) == coloring

\* BruteForceColoring._color_graph_impl: self.coloring after it, for nodeList the
\* list of the node set; on the fall-through self.coloring is not assigned.
brute_force_impl(nodeList, coloring) ==
    LET bound == upper_bound
        r == try_k(nodeList, 1, bound)
    IN  IF r.found THEN r.coloring ELSE coloring

\* ---------------------------------------------------------------- heuristics
\* (mutant) the colours of the neighbours are never collected.
NeighborColors_bad(node, coloring) == {}

\* The colours of the neighbours that have an entry in the dict.
NeighborColors(node, coloring) ==
    LET neighbors == get_neighbors(node)
    IN  {coloring[neighbors[i]] :
            i \in {j \in 1..Len(neighbors) : neighbors[j] \in DOMAIN coloring}}

\* color = 1; while color in S: color += 1
RECURSIVE first_fit_from(_, _)
first_fit_from(color, S) == IF color \in S THEN first_fit_from(color + 1, S) ELSE color

\* (mutant) the search starts at colour 0.
get_first_available_color_bad(neighbor_colors) == first_fit_from(0, neighbor_colors)

get_first_available_color(neighbor_colors) == first_fit_from(1, neighbor_colors)

get_sorted_nodes_by_degree == SortedByDegree(get_nodes)

\* The loop "for node in sorted_nodes" of WelshPowellColoring._color_graph_impl,
\* over the nodes still to do, on the dict it writes to.
RECURSIVE wp_loop(_, _)
wp_loop(todo, coloring) ==
    IF todo = <<>> THEN coloring
    ELSE wp_loop(Tail(todo),
                 Assign(coloring, Head(todo),
                        get_first_available_color(NeighborColors(Head(todo), coloring))))

\* WelshPowellColoring._color_graph_impl past its validation: it writes into
\* self.coloring as it stands (the dict is not cleared first).
welsh_powell_impl(coloring) == wp_loop(get_sorted_nodes_by_degree, coloring)

\* GreedyColoring.color_graph: the order, the first-fit loop and the pass.
greedy_order(order_strategy) ==
    IF order_strategy = "natural" THEN SortedById(get_nodes) ELSE SortedByDegree(get_nodes)

\* (mutant) the while loop never runs: every node gets colour 1.
greedy_first_fit_bad(forbidden_colors) == first_fit_from(1, {})

greedy_first_fit(forbidden_colors) == first_fit_from(1, forbidden_colors)

RECURSIVE greedy_loop(_, _)
greedy_loop(todo, coloring) ==
    IF todo = <<>> THEN coloring
    ELSE greedy_loop(Tail(todo),
                     Assign(coloring, Head(todo),
                            greedy_first_fit(NeighborColors(Head(todo), coloring))))

\* self.coloring = {} and then the pass.
greedy_color_graph(order_strategy) == greedy_loop(greedy_order(order_strategy), EmptyColoring)

\* ---------------------------------------------------------------- constructors
\* Whether __init__ raises ValueError for the graph (and strategy) it is given.
\* BruteForceColoring and WelshPowellColoring only call the base __init__.
\* (mutant) the validation of GreedyColoring.__init__, copied.
brute_force_init_raises_bad(graph) == graph = "None" \/ nodes = {}

brute_force_init_raises(graph) == FALSE

welsh_powell_init_raises(graph) == FALSE

\* (mutant) only the order strategy is validated.
greedy_init_raises_bad(graph, order_strategy) ==
    order_strategy \notin {"natural", "degree"}

greedy_init_raises(graph, order_strategy) ==
    \/ graph = "None"
    \/ nodes = {}
    \/ order_strategy \notin {"natural", "degree"}

\* solver = Kind(graph, ...): on an error no instance is made and the caller's
\* variable keeps what it held.
Construct(kind, graph, order_strategy, raises) ==
    /\ IF raises
       THEN /\ last' = [Done("construct", kind, "ValueError") EXCEPT
                            !.argNone = (graph = "None")]
            /\ UNCHANGED <<solver, hist>>
       ELSE /\ solver' = NewSolver(kind, graph, order_strategy)
            /\ hist' = NoHist
            /\ last' = [Done("construct", kind, "ok") EXCEPT
                            !.argNone = (graph = "None")]
    /\ iterOrder' = IF raises THEN iterOrder ELSE <<>>
    /\ UNCHANGED <<nodes, adjacency_list, peers>>

ConstructBruteForce ==
    \E graph \in {"None", "G"} :
        Construct("bf", graph, "-", brute_force_init_raises(graph))

ConstructWelshPowell ==
    \E graph \in {"None", "G"} :
        Construct("wp", graph, "-", welsh_powell_init_raises(graph))

ConstructGreedy ==
    \E graph \in {"None", "G"}, order_strategy \in {"natural", "degree", "random"} :
        Construct("greedy", graph, order_strategy,
                  greedy_init_raises(graph, order_strategy))

\* ---------------------------------------------------------------- color_graph
\* A color_graph() call that raises: nothing of the instance is assigned.
Raised(error) ==
    /\ last' = Done("color_graph", solver.kind, error)
    /\ UNCHANGED <<nodes, adjacency_list, iterOrder, solver, hist, peers>>

\* (mutant) the solver sorts the graph's own neighbour lists while it runs.
Returned_bad(coloring, execution_time, dur, impl) ==
    /\ solver' = [solver EXCEPT !.coloring = coloring,
                                !.execution_time = execution_time]
    /\ hist' = [hist EXCEPT !.called = TRUE, !.stale = FALSE, !.ret = coloring]
    /\ last' = [Done("color_graph", solver.kind, "ok") EXCEPT
                    !.ret = coloring, !.dur = dur, !.impl = impl,
                    !.repeat = hist.called /\ ~hist.stale, !.prev = hist.ret]
    /\ adjacency_list' = [n \in nodes |-> StableSortById(adjacency_list[n])]
    /\ UNCHANGED <<nodes, peers>>

\* A color_graph() call that returns self.coloring: impl counts the calls of
\* _color_graph_impl it made, dur is time.time() at its end minus start_time.
Returned(coloring, execution_time, dur, impl) ==
    /\ solver' = [solver EXCEPT !.coloring = coloring,
                                !.execution_time = execution_time]
    /\ hist' = [hist EXCEPT !.called = TRUE, !.stale = FALSE, !.ret = coloring]
    /\ last' = [Done("color_graph", solver.kind, "ok") EXCEPT
                    !.ret = coloring, !.dur = dur, !.impl = impl,
                    !.repeat = hist.called /\ ~hist.stale, !.prev = hist.ret]
    /\ UNCHANGED <<nodes, adjacency_list, peers>>

\* GraphColoringAlgorithm.color_graph with BruteForceColoring._color_graph_impl.
\* list(self.graph.get_nodes()) reads the set in its iteration order: any order
\* the first time the set is read after it changed, the same order from then on.
ColorGraphBruteForce ==
    /\ solver.kind = "bf"
    /\ IF solver.graph = "None"
       THEN Raised("AttributeError")
       ELSE \E nodeList \in IF Len(iterOrder) = Cardinality(nodes)
                             THEN {iterOrder} ELSE Perms(nodes) :
            \E dur \in 1..MaxDuration :
               /\ iterOrder' = nodeList
               /\ Returned(brute_force_impl(nodeList, solver.coloring), dur, dur, 1)

\* GraphColoringAlgorithm.color_graph with WelshPowellColoring._color_graph_impl.
ColorGraphWelshPowell ==
    /\ solver.kind = "wp"
    /\ IF solver.graph = "None" \/ get_nodes = {}
       THEN Raised("ValueError")
       ELSE \E dur \in 1..MaxDuration :
               /\ Returned(welsh_powell_impl(solver.coloring), dur, dur, 1)
               /\ UNCHANGED iterOrder

\* GreedyColoring.color_graph, which overrides the base method: start_time is
\* read and not used again, _color_graph_impl is not called.
ColorGraphGreedy ==
    /\ solver.kind = "greedy"
    /\ \E dur \in 1..MaxDuration :
          /\ Returned(greedy_color_graph(solver.order_strategy),
                      solver.execution_time, dur, 0)
          /\ UNCHANGED iterOrder

\* ---------------------------------------------------------------- queries
GetChromaticity ==
    /\ solver.kind # "none"
    /\ last' = [Done("get_chromaticity", solver.kind, "ok") EXCEPT !.n = get_chromaticity]
    /\ UNCHANGED <<nodes, adjacency_list, iterOrder, solver, hist, peers>>

\* is_valid_coloring(coloring), coloring None (argNone) or a dict.
Validate(argNone, arg) ==
    /\ solver.kind # "none"
    /\ last' = IF solver.graph = "None"
               THEN [Done("is_valid_coloring", solver.kind, "AttributeError") EXCEPT
                        !.arg = arg, !.argNone = argNone]
               ELSE [Done("is_valid_coloring", solver.kind, "ok") EXCEPT
                        !.arg = arg, !.argNone = argNone,
                        !.b = is_valid_coloring(IF argNone THEN solver.coloring ELSE arg)]
    /\ UNCHANGED <<nodes, adjacency_list, iterOrder, solver, hist, peers>>

\* is_valid_coloring(): the stored colouring, which is the dict color_graph() returned.
IsValidResult == Validate(TRUE, EmptyColoring)

\* is_valid_coloring(coloring) for any dict over the identifiers in use.
ArgColorings == UNION {[D -> 0..MaxArgColor] : D \in SUBSET Ids}

IsValidColoring == \E arg \in ArgColorings : Validate(FALSE, arg)

\* ---------------------------------------------------------------- specification
Init ==
    /\ nodes = {}
    /\ adjacency_list = [n \in {} |-> <<>>]
    /\ iterOrder = <<>>
    /\ solver = NoSolver
    /\ hist = NoHist
    /\ last = NoOp
    /\ peers = [i \in Instances |-> NoPeer]

Next ==
    \/ AddNode
    \/ AddEdge
    \/ ConstructBruteForce
    \/ ConstructWelshPowell
    \/ ConstructGreedy
    \/ ColorGraphBruteForce
    \/ ColorGraphWelshPowell
    \/ ColorGraphGreedy
    \/ GetChromaticity
    \/ IsValidResult

Spec == Init /\ [][Next]_vars

\* The same program with a caller that builds a graph and a solver and asks
\* is_valid_coloring about dicts of its own.
NextValid ==
    \/ AddNode
    \/ AddEdge
    \/ ConstructBruteForce
    \/ ConstructWelshPowell
    \/ ConstructGreedy
    \/ IsValidColoring

SpecValid == Init /\ [][NextValid]_vars

\* ---------------------------------------------------------------- the Graph alone
\* A caller that uses integer and string identifiers together, adds nodes and
\* edges in any order and with any arguments, and reads the graph back.
GraphIdPool == <<1, 101, 10, 2, 102, 20>>
GraphIds == {GraphIdPool[i] : i \in 1..MaxNodes}

GraphAddNode == \E node \in GraphIds \cup {None} : add_node(node)

GraphAddEdge == \E node1, node2 \in GraphIds \cup {None} : add_edge(node1, node2)

\* get_edges(): sorted() reads the set self.nodes in its iteration order.
GetEdges ==
    \E iteration \in Perms(nodes) :
        /\ last' = [Done("get_edges", "Graph", "ok") EXCEPT
                        !.list = EdgesOver(StableSortById(iteration))]
        /\ UNCHANGED <<nodes, adjacency_list, iterOrder, solver, hist, peers>>

\* get_sorted_nodes_by_degree(graph): sorted() of list(graph.get_nodes()).
GetSortedNodesByDegree ==
    \E iteration \in Perms(get_nodes) :
        /\ last' = [Done("get_sorted_nodes_by_degree", "Graph", "ok") EXCEPT
                        !.list = StableSortByDegree(iteration)]
        /\ UNCHANGED <<nodes, adjacency_list, iterOrder, solver, hist, peers>>

NextGraph ==
    \/ GraphAddNode
    \/ GraphAddEdge
    \/ GetEdges
    \/ GetSortedNodesByDegree

SpecGraph == Init /\ [][NextGraph]_vars

\* ---------------------------------------------------------------- several instances
\* A caller that builds the graph first, then constructs instances over it and
\* calls color_graph() on them in any order.
NoPeerYet == \A i \in Instances : peers[i].inst.kind = "none"

MultiAddNode == NoPeerYet /\ AddNode

MultiAddEdge == NoPeerYet /\ AddEdge

PeerInitRaises(kind, order_strategy) ==
    IF kind = "bf" THEN brute_force_init_raises("G")
    ELSE IF kind = "wp" THEN welsh_powell_init_raises("G")
    ELSE greedy_init_raises("G", order_strategy)

\* peers[i] = Kind(G, ...), once for each name.
PeerConstruct(i) ==
    \E kind \in {"bf", "wp", "greedy"} :
    \E order_strategy \in IF kind = "greedy" THEN {"natural", "degree"} ELSE {"-"} :
        /\ peers[i].inst.kind = "none"
        /\ IF PeerInitRaises(kind, order_strategy)
           THEN /\ last' = [Done("construct", kind, "ValueError") EXCEPT
                                !.argNone = FALSE, !.who = i]
                /\ UNCHANGED peers
           ELSE /\ peers' = [peers EXCEPT ![i] =
                                [NoPeer EXCEPT !.inst = NewSolver(kind, "G", order_strategy)]]
                /\ last' = [Done("construct", kind, "ok") EXCEPT
                                !.argNone = FALSE, !.who = i]
        /\ UNCHANGED <<nodes, adjacency_list, iterOrder, solver, hist>>

\* (mutant) coloring is one dict of the class, shared by all instances.
StoreColoring_bad(held, i, coloring) ==
    [j \in DOMAIN held |-> [held[j] EXCEPT !.inst.coloring = coloring]]

\* self.coloring = ... : the attribute of the instance itself.
StoreColoring(held, i, coloring) == [held EXCEPT ![i].inst.coloring = coloring]

\* self.execution_time = ... : the attribute of the instance itself.
StoreTime(held, i, execution_time) ==
    [held EXCEPT ![i].inst.execution_time = execution_time]

\* self.coloring after the color_graph() call of an instance.
ColoringAfter(inst, nodeList) ==
    IF inst.kind = "bf" THEN brute_force_impl(nodeList, inst.coloring)
    ELSE IF inst.kind = "wp" THEN welsh_powell_impl(inst.coloring)
    ELSE greedy_color_graph(inst.order_strategy)

\* peers[i].color_graph()
PeerColorGraph(i) ==
    LET inst == peers[i].inst
    IN  /\ inst.kind # "none"
        /\ IF inst.kind = "wp" /\ get_nodes = {}
           THEN /\ last' = [Done("color_graph", inst.kind, "ValueError") EXCEPT !.who = i]
                /\ UNCHANGED <<nodes, adjacency_list, iterOrder, solver, hist, peers>>
           ELSE \E nodeList \in IF inst.kind = "bf" /\ Len(iterOrder) # Cardinality(nodes)
                                 THEN Perms(nodes) ELSE {iterOrder} :
                \E dur \in 1..MaxDuration :
                   /\ iterOrder' = nodeList
                   /\ peers' = [StoreTime(StoreColoring(peers, i, ColoringAfter(inst, nodeList)),
                                          i,
                                          IF inst.kind = "greedy"
                                          THEN inst.execution_time ELSE dur)
                                    EXCEPT ![i].called = TRUE, ![i].dur = dur]
                   /\ last' = [Done("color_graph", inst.kind, "ok") EXCEPT
                                   !.who = i, !.dur = dur]
                   /\ UNCHANGED <<nodes, adjacency_list, solver, hist>>

NextMulti ==
    \/ MultiAddNode
    \/ MultiAddEdge
    \/ \E i \in Instances : PeerConstruct(i)
    \/ \E i \in Instances : PeerColorGraph(i)

SpecMulti == Init /\ [][NextMulti]_vars

\* ---------------------------------------------------------------- first fit alone
\* get_first_available_color(neighbor_colors) called on a set of integers, which
\* may hold zero and negative numbers.
ColorSets == SUBSET (-1..MaxColor)

InitFirstFit ==
    /\ nodes = {}
    /\ adjacency_list = [n \in {} |-> <<>>]
    /\ iterOrder = <<>>
    /\ solver = NoSolver
    /\ hist = NoHist
    /\ peers = [i \in Instances |-> NoPeer]
    /\ \E neighbor_colors \in ColorSets :
          last = [Done("input", "-", "ok") EXCEPT !.colors = neighbor_colors]

GetFirstAvailableColor ==
    /\ last.op = "input"
    /\ last' = [Done("get_first_available_color", "-", "ok") EXCEPT
                    !.colors = last.colors,
                    !.n = get_first_available_color(last.colors)]
    /\ UNCHANGED <<nodes, adjacency_list, iterOrder, solver, hist, peers>>

NextFirstFit == GetFirstAvailableColor

SpecFirstFit == InitFirstFit /\ [][NextFirstFit]_vars

\* ---------------------------------------------------------------- cycle graphs
\* create_cycle_graph(n) of utils.py: nodes "v0" .. "v<n-1>" (written here without
\* the letter they all start with), then add_edge(nodes[i], nodes[(i + 1) % n])
\* for i = 0 .. n-1. For n >= 3 no add_edge call raises or finds its edge present.
CycleNode(i) == StrIdBase + i

\* adjacency_list after add_edge(a, b) on two different nodes of the graph.
WithEdge(adj, a, b) ==
    IF InList(b, adj[a]) THEN adj
    ELSE [adj EXCEPT ![a] = Append(@, b), ![b] = Append(@, a)]

\* adjacency_list after the passes i .. n-1 of the loop over the edges.
RECURSIVE CycleEdgesFrom(_, _, _)
CycleEdgesFrom(adj, i, n) ==
    IF i >= n THEN adj
    ELSE CycleEdgesFrom(WithEdge(adj, CycleNode(i), CycleNode((i + 1) % n)), i + 1, n)

\* graph, nodes = create_cycle_graph(n), by a caller that holds no solver yet.
CreateCycleGraph ==
    \E n \in 3..MaxCycle :
        /\ nodes = {}
        /\ solver.kind = "none"
        /\ nodes' = {CycleNode(i) : i \in 0..(n - 1)}
        /\ adjacency_list' = CycleEdgesFrom([v \in nodes' |-> <<>>], 0, n)
        /\ iterOrder' = <<>>
        /\ last' = Done("create_cycle_graph", "utils", "ok")
        /\ UNCHANGED <<solver, hist, peers>>

NextCycle ==
    \/ CreateCycleGraph
    \/ ConstructBruteForce
    \/ ColorGraphBruteForce
    \/ GetChromaticity

SpecCycle == Init /\ [][NextCycle]_vars

\* ---------------------------------------------------------------- path graphs
\* create_path_graph(n) of utils.py: nodes "p0" .. "p<n-1>" (written here without
\* the letter they all start with), then add_edge(nodes[i], nodes[i + 1]) for
\* i = 0 .. n-2. No add_edge call raises or finds its edge present.
PathNode(i) == StrIdBase + i

\* adjacency_list after the passes i .. n-2 of the loop over the edges.
RECURSIVE PathEdgesFrom(_, _, _)
PathEdgesFrom(adj, i, n) ==
    IF i >= n - 1 THEN adj
    ELSE PathEdgesFrom(WithEdge(adj, PathNode(i), PathNode(i + 1)), i + 1, n)

\* graph, nodes = create_path_graph(n), by a caller that holds no solver yet.
CreatePathGraph ==
    \E n \in 1..MaxPath :
        /\ nodes = {}
        /\ solver.kind = "none"
        /\ nodes' = {PathNode(i) : i \in 0..(n - 1)}
        /\ adjacency_list' = PathEdgesFrom([v \in nodes' |-> <<>>], 0, n)
        /\ iterOrder' = <<>>
        /\ last' = Done("create_path_graph", "utils", "ok")
        /\ UNCHANGED <<solver, hist, peers>>

\* A caller that makes a path graph and runs the two heuristics on it.
NextPath ==
    \/ CreatePathGraph
    \/ ConstructWelshPowell
    \/ ConstructGreedy
    \/ ColorGraphWelshPowell
    \/ ColorGraphGreedy
    \/ GetChromaticity

SpecPath == Init /\ [][NextPath]_vars

\* ---------------------------------------------------------------- the greedy pass, step by step
\* GreedyColoring.color_graph() one loop pass at a time, over a graph with integer
\* and string identifiers. While the call runs, last holds the sorted list "nodes"
\* (list) and how many of its entries the loop has done (n); self.coloring is
\* written in place. The caller changes the graph only between calls.
GreedyBusy == last.op = "greedy_pass"

\* (mutant) the list is not sorted: the nodes stay in the set's iteration order.
greedy_sorted_bad(iteration, order_strategy) == iteration

\* nodes.sort(key=...) on nodes = list(self.graph.get_nodes())
greedy_sorted(iteration, order_strategy) ==
    IF order_strategy = "natural"
    THEN StableSortById(iteration)
    ELSE StableSortByDegree(iteration)

\* self.coloring = {}
greedy_reset(coloring) == EmptyColoring

\* From start_time = time.time() to self.coloring = {}.
GreedyBegin ==
    /\ solver.kind = "greedy"
    /\ ~GreedyBusy
    /\ \E iteration \in Perms(get_nodes) :
          /\ solver' = [solver EXCEPT !.coloring = greedy_reset(@)]
          /\ last' = [Done("greedy_pass", "greedy", "ok") EXCEPT
                          !.list = greedy_sorted(iteration, solver.order_strategy),
                          !.n = 0]
    /\ UNCHANGED <<nodes, adjacency_list, iterOrder, hist, peers>>

\* One pass of "for node in nodes".
GreedyStep ==
    /\ GreedyBusy
    /\ last.n < Len(last.list)
    /\ LET node == last.list[last.n + 1]
           forbidden_colors == NeighborColors(node, solver.coloring)
       IN  solver' = [solver EXCEPT
                         !.coloring = Assign(@, node, greedy_first_fit(forbidden_colors))]
    /\ last' = [last EXCEPT !.n = @ + 1]
    /\ UNCHANGED <<nodes, adjacency_list, iterOrder, hist, peers>>

\* return self.coloring
GreedyReturn ==
    /\ GreedyBusy
    /\ last.n = Len(last.list)
    /\ \E dur \in 1..MaxDuration :
          Returned(solver.coloring, solver.execution_time, dur, 0)
    /\ UNCHANGED iterOrder

\* The caller adds nodes with identifiers of both kinds, and the edges in one scan
\* of the pairs of its identifiers, as AddEdge does with the integer ones.
GraphPoolIndex(id) ==
    IF id = None THEN 0 ELSE CHOOSE i \in 1..Len(GraphIdPool) : GraphIdPool[i] = id

GraphInScanOrder(node1, node2) ==
    (node1 \in nodes /\ node2 \in nodes /\ node1 # node2) =>
        /\ GraphPoolIndex(node1) < GraphPoolIndex(node2)
        /\ \A a \in nodes : \A i \in 1..Len(adjacency_list[a]) :
              LET b == adjacency_list[a][i]
              IN  GraphPoolIndex(a) < GraphPoolIndex(b) =>
                      \/ GraphPoolIndex(a) < GraphPoolIndex(node1)
                      \/ a = node1 /\ GraphPoolIndex(b) <= GraphPoolIndex(node2)

GreedyAddNode == ~GreedyBusy /\ MayMutate /\ GraphAddNode

GreedyAddEdge ==
    \E node1, node2 \in GraphIds \cup {None} :
        /\ ~GreedyBusy
        /\ MayMutate
        /\ GraphPoolIndex(node1) <= GraphPoolIndex(node2)
        /\ GraphInScanOrder(node1, node2)
        /\ add_edge(node1, node2)

NextGreedy ==
    \/ GreedyAddNode
    \/ GreedyAddEdge
    \/ ~GreedyBusy /\ ConstructGreedy
    \/ GreedyBegin
    \/ GreedyStep
    \/ GreedyReturn

SpecGreedy == Init /\ [][NextGreedy]_vars

\* ---------------------------------------------------------------- the exact search, step by step
\* BruteForceColoring's color_graph() one change of the working dict at a time.
\* While the call runs, iterOrder is the list "nodes", and last holds the k of the
\* "for k" loop (k), the dict "coloring" of _find_valid_coloring_with_k_colors
\* (work), the colour of the loop "for color in range(k)" that was undone last
\* (color) and where the call stands (pc):
\*   "k_loop"   at the head of "for k in range(1, upper_bound + 1)";
\*   "assigned" after coloring[node] = color, before the safety test;
\*   "deleted"  after del coloring[node];
\*   "found"    backtrack(0) has returned True.
\* The frames of backtrack are the entries of work: the frame of node_index i is
\* in pass coloring[nodes[i]] of its loop.
ExactBusy == last.op = "exact_search"

\* nodes = list(self.graph.get_nodes()) and the entry into the loop over k.
ExactBegin ==
    /\ solver.kind = "bf"
    /\ solver.graph = "G"
    /\ ~ExactBusy
    /\ \E nodeList \in IF Len(iterOrder) = Cardinality(nodes)
                        THEN {iterOrder} ELSE Perms(nodes) :
          iterOrder' = nodeList
    /\ last' = [Done("exact_search", "bf", "ok") EXCEPT !.pc = "k_loop", !.k = 1]
    /\ UNCHANGED <<nodes, adjacency_list, solver, hist, peers>>

\* The next pass of the loop over k: _find_valid_coloring_with_k_colors(nodes, k)
\* starts with an empty dict and backtrack(0), which returns True at once for an
\* empty list and else assigns colour 0 to the first node.
ExactNextK ==
    /\ ExactBusy
    /\ last.pc = "k_loop"
    /\ last.k <= upper_bound
    /\ last' = IF Len(iterOrder) = 0
               THEN [last EXCEPT !.pc = "found", !.work = EmptyColoring]
               ELSE [last EXCEPT !.pc = "assigned",
                                 !.work = Assign(EmptyColoring, iterOrder[1], 0)]
    /\ UNCHANGED <<nodes, adjacency_list, iterOrder, solver, hist, peers>>

\* After coloring[node] = color: the safety test, then either the call of
\* backtrack(node_index + 1) up to its first assignment (or its return of True at
\* the end of the list), or del coloring[node].
ExactCheck ==
    /\ ExactBusy
    /\ last.pc = "assigned"
    /\ LET node_index == Cardinality(DOMAIN last.work) - 1
           node == iterOrder[node_index + 1]
       IN  last' = IF is_safe_partial_coloring(node, last.work)
                   THEN IF node_index + 1 = Len(iterOrder)
                        THEN [last EXCEPT !.pc = "found"]
                        ELSE [last EXCEPT !.work = Assign(@, iterOrder[node_index + 2], 0)]
                   ELSE [last EXCEPT !.pc = "deleted",
                                     !.color = last.work[node],
                                     !.work = Delete(@, node)]
    /\ UNCHANGED <<nodes, adjacency_list, iterOrder, solver, hist, peers>>

\* (mutant) "return False" sits inside the loop over the colours: a frame gives up
\* after the first colour that fails.
ExactAdvance_bad ==
    /\ ExactBusy
    /\ last.pc = "deleted"
    /\ LET node_index == Cardinality(DOMAIN last.work)
       IN  last' = IF node_index = 0
                   THEN [last EXCEPT !.pc = "k_loop", !.k = @ + 1]
                   ELSE [last EXCEPT !.color = last.work[iterOrder[node_index]],
                                     !.work = Delete(@, iterOrder[node_index])]
    /\ UNCHANGED <<nodes, adjacency_list, iterOrder, solver, hist, peers>>

\* After del coloring[node]: the next colour of the loop; at the end of the loop
\* the frame returns False, to the frame above (which undoes its own assignment)
\* or, from backtrack(0), to the loop over k.
ExactAdvance ==
    /\ ExactBusy
    /\ last.pc = "deleted"
    /\ LET node_index == Cardinality(DOMAIN last.work)
       IN  last' = IF last.color + 1 < last.k
                   THEN [last EXCEPT !.pc = "assigned",
                                     !.work = Assign(@, iterOrder[node_index + 1],
                                                     last.color + 1)]
                   ELSE IF node_index = 0
                   THEN [last EXCEPT !.pc = "k_loop", !.k = @ + 1]
                   ELSE [last EXCEPT !.color = last.work[iterOrder[node_index]],
                                     !.work = Delete(@, iterOrder[node_index])]
    /\ UNCHANGED <<nodes, adjacency_list, iterOrder, solver, hist, peers>>

\* self.coloring = valid_coloring; return, and the end of color_graph().
ExactReturn ==
    /\ ExactBusy
    /\ last.pc = "found"
    /\ \E dur \in 1..MaxDuration : Returned(last.work, dur, dur, 1)
    /\ UNCHANGED iterOrder

\* The loop over k has ended without a colouring: "return {}" of
\* _color_graph_impl, self.coloring not assigned, and the end of color_graph().
ExactFallThrough ==
    /\ ExactBusy
    /\ last.pc = "k_loop"
    /\ last.k > upper_bound
    /\ \E dur \in 1..MaxDuration :
          /\ solver' = [solver EXCEPT !.execution_time = dur]
          /\ hist' = [hist EXCEPT !.called = TRUE, !.stale = FALSE, !.ret = solver.coloring]
          /\ last' = [Done("color_graph", "bf", "ok") EXCEPT
                          !.ret = solver.coloring, !.dur = dur, !.impl = 1,
                          !.repeat = hist.called /\ ~hist.stale, !.prev = hist.ret,
                          !.pc = "fallthrough", !.k = last.k]
    /\ UNCHANGED <<nodes, adjacency_list, iterOrder, peers>>

ExactSteps ==
    \/ ExactNextK
    \/ ExactCheck
    \/ ExactAdvance
    \/ ExactReturn
    \/ ExactFallThrough

\* The caller builds its graph, then constructs exact solvers over it and calls
\* color_graph() on the one it holds.
NextExact ==
    \/ solver.kind = "none" /\ AddNode
    \/ solver.kind = "none" /\ AddEdge
    \/ ~ExactBusy /\ ConstructBruteForce
    \/ ExactBegin
    \/ ExactSteps

SpecExact == Init /\ [][NextExact]_vars

\* The call runs on one thread that no other thread holds up: while a step of
\* the call is possible, one is taken.
SpecExactFair == SpecExact /\ WF_vars(ExactSteps)

\* ---------------------------------------------------------------- properties
\* The last operation was a color_graph() call that returned.
Coloured == last.op = "color_graph" /\ last.outcome = "ok"

\* The held instance has a result and the graph is as it was when it was returned.
Fresh == hist.called /\ ~hist.stale

\* Graph.has_edge(a, b) for two nodes of the graph: b is in a's adjacency list.
has_edge(a, b) == InList(b, adjacency_list[a])

\* No edge of the graph has both ends in the dict with the same colour.
NoConflict(coloring) ==
    \A a \in nodes \cap DOMAIN coloring : \A b \in nodes \cap DOMAIN coloring :
        has_edge(a, b) => coloring[a] # coloring[b]

\* The graph has a proper colouring of all its nodes with the colours 1..k.
HasProperColoring(k) == \E f \in [nodes -> 1..k] : NoConflict(f)

ColorCount(coloring) == Cardinality(Range(coloring))

\* C1: on a non-empty graph the colouring color_graph() returns, for each of the
\* three solvers, has no edge whose two ends carry the same colour, and
\* is_valid_coloring() on it (the graph unchanged) answers True.
C1_ReturnedColoringValid ==
    /\ (Coloured /\ nodes # {}) => NoConflict(last.ret)
    /\ (last.op = "is_valid_coloring" /\ last.outcome = "ok" /\ Fresh /\ nodes # {})
           => last.b

C1_Witness ==
    /\ last.op = "is_valid_coloring" /\ last.b /\ Fresh
    /\ solver.kind = "wp"
    /\ Len(get_edges) >= 2

\* C2: on a non-empty graph the number of distinct colours in the exact solver's
\* result is the chromatic number: the graph has a proper colouring with that
\* many colours and none with one colour fewer.
C2_ExactIsChromaticNumber ==
    (Coloured /\ solver.kind = "bf" /\ nodes # {}) =>
        /\ HasProperColoring(ColorCount(last.ret))
        /\ ~HasProperColoring(ColorCount(last.ret) - 1)

C2_Witness ==
    /\ Coloured /\ solver.kind = "bf"
    /\ ColorCount(last.ret) = 2
    /\ Cardinality(nodes) = 3

\* C3 (as claimed): is_valid_coloring(c) is True exactly when every edge has both
\* ends in c with different colours; an edge with one end missing makes it False.
C3_ValidIffAllEdgesColouredApart ==
    (last.op = "is_valid_coloring" /\ last.outcome = "ok" /\ ~last.argNone) =>
        (last.b <=> \A a \in nodes : \A b \in nodes :
                       has_edge(a, b) =>
                           /\ a \in DOMAIN last.arg
                           /\ b \in DOMAIN last.arg
                           /\ last.arg[a] # last.arg[b])

\* C4 (as claimed): a color_graph() call that follows another one on the same
\* instance, the graph unchanged in between, returns the colouring the earlier
\* call returned, for each of the three solvers.
C4_RepeatedCallSameColoring ==
    (Coloured /\ last.repeat) => last.ret = last.prev

\* C5: a color_graph() call that returns gives, and leaves stored, a colouring
\* whose domain is exactly the node set; a call that raises leaves nothing stored.
C5_NoPartialResult ==
    /\ Coloured => (DOMAIN last.ret = nodes /\ solver.coloring = last.ret)
    /\ (last.op = "color_graph" /\ last.outcome # "ok")
           => solver.coloring = EmptyColoring

C5_Witness ==
    /\ Coloured /\ solver.kind = "bf"
    /\ Cardinality(nodes) >= 2
    /\ Len(get_edges) >= 1

\* C6 (as claimed): a color_graph() call of any solver calls _color_graph_impl
\* exactly once and then stores the duration of the call as the execution time.
C6_OneImplCallAndTimeStored ==
    Coloured => (last.impl = 1 /\ solver.execution_time = last.dur)

\* C7: get_chromaticity() returns the number of distinct colours of the colouring
\* the most recent color_graph() call on the instance returned, and 0 when no
\* call has returned.
C7_ChromaticityOfLastResult ==
    last.op = "get_chromaticity" =>
        last.n = IF hist.called THEN ColorCount(hist.ret) ELSE 0

C7_Witness ==
    /\ last.op = "get_chromaticity" /\ hist.called
    /\ last.n = 2
    /\ Cardinality(nodes) = 3

\* C8: on a non-empty graph the exact solver's colour count is at most the count
\* of the greedy solver (either order) and at most the count of Welsh-Powell, and
\* a heuristic's count is at least the exact solver's.
C8_ExactAtMostHeuristics ==
    (last.op = "get_chromaticity" /\ Fresh /\ nodes # {} /\ solver.graph = "G") =>
        /\ solver.kind = "bf" =>
              /\ last.n <= ColorCount(greedy_color_graph("natural"))
              /\ last.n <= ColorCount(greedy_color_graph("degree"))
              /\ last.n <= ColorCount(welsh_powell_impl(EmptyColoring))
        /\ solver.kind \in {"greedy", "wp"} =>
              ColorCount(brute_force_impl(SortedById(nodes), EmptyColoring)) <= last.n

C8_Witness ==
    /\ last.op = "get_chromaticity" /\ Fresh /\ solver.kind = "bf"
    /\ last.n = 3
    /\ ColorCount(greedy_color_graph("natural")) = 3

\* C9: over a graph with no nodes the exact solver is constructed without error,
\* color_graph() returns the empty colouring, get_chromaticity() is then 0 and
\* is_valid_coloring() is True.
C9_ExactOnEmptyGraph ==
    /\ (last.op = "construct" /\ last.kind = "bf" /\ ~last.argNone /\ nodes = {})
           => last.outcome = "ok"
    /\ (solver.kind = "bf" /\ solver.graph = "G" /\ nodes = {}) =>
           /\ last.op = "color_graph" => (last.outcome = "ok" /\ last.ret = EmptyColoring)
           /\ (last.op = "get_chromaticity" /\ hist.called) => last.n = 0
           /\ (last.op = "is_valid_coloring" /\ hist.called)
                  => (last.outcome = "ok" /\ last.b)

C9_Witness ==
    /\ solver.kind = "bf" /\ solver.graph = "G" /\ nodes = {}
    /\ hist.called /\ hist.ret = EmptyColoring
    /\ last.op = "is_valid_coloring" /\ last.b

\* C10 (as claimed): constructing a Welsh-Powell solver over None or over a graph
\* with no nodes raises in the constructor, so no Welsh-Powell instance is ever
\* bound to None or to an empty graph.
C10_WelshPowellRejectsAtConstruction ==
    /\ (last.op = "construct" /\ last.kind = "wp" /\ (last.argNone \/ nodes = {}))
           => last.outcome = "ValueError"
    /\ ~(solver.kind = "wp" /\ (solver.graph = "None" \/ nodes = {}))

\* C11: constructing a greedy solver over None or over a graph with no nodes
\* raises ValueError in the constructor, and no greedy instance is ever bound to
\* None or to an empty graph.
C11_GreedyRejectsAtConstruction ==
    /\ (last.op = "construct" /\ last.kind = "greedy" /\ (last.argNone \/ nodes = {}))
           => last.outcome = "ValueError"
    /\ ~(solver.kind = "greedy" /\ (solver.graph = "None" \/ nodes = {}))

C11_Witness ==
    /\ last.op = "construct" /\ last.kind = "greedy"
    /\ ~last.argNone /\ nodes = {}
    /\ last.outcome = "ValueError"
    /\ solver.kind # "greedy"

\* The sum of the degrees of all nodes.
RECURSIVE SumOfDegrees(_)
SumOfDegrees(S) ==
    IF S = {} THEN 0
    ELSE LET x == CHOOSE y \in S : TRUE
         IN  Len(adjacency_list[x]) + SumOfDegrees(S \ {x})

\* C12: after any sequence of add_node and add_edge calls, succeeding or failing,
\* on an initially empty Graph: no node is its own neighbour, b is a neighbour of
\* a iff a is one of b, no adjacency list holds a node twice, and every node in an
\* adjacency list is in the node set.
C12_GraphWellFormed ==
    /\ DOMAIN adjacency_list = nodes
    /\ \A a \in nodes : \A i \in 1..Len(adjacency_list[a]) :
          LET b == adjacency_list[a][i]
          IN  /\ b # a
              /\ b \in nodes
              /\ \E j \in 1..Len(adjacency_list[b]) : adjacency_list[b][j] = a
              /\ \A j \in 1..Len(adjacency_list[a]) : j # i => adjacency_list[a][j] # b

C12_Witness ==
    /\ Cardinality(nodes) = 3
    /\ SumOfDegrees(nodes) >= 4
    /\ last.op = "add_edge" /\ last.outcome = "ValueError"

\* C13: an add_node call with None or with a node already in the graph, and an
\* add_edge call with an endpoint not in the graph or with two equal endpoints,
\* raises ValueError and leaves the node set and every adjacency list as they were.
C13_FailedCallChangesNothing ==
    [][ /\ \A node \in GraphIds \cup {None} :
              ((node = None \/ node \in nodes) /\ add_node(node)) =>
                  /\ last'.outcome = "ValueError"
                  /\ nodes' = nodes
                  /\ adjacency_list' = adjacency_list
        /\ \A node1 \in GraphIds \cup {None} : \A node2 \in GraphIds \cup {None} :
              ((node1 \notin nodes \/ node2 \notin nodes \/ node1 = node2)
                  /\ add_edge(node1, node2)) =>
                  /\ last'.outcome = "ValueError"
                  /\ nodes' = nodes
                  /\ adjacency_list' = adjacency_list
      ]_vars

C13_Witness ==
    /\ last.op = "add_node" /\ last.outcome = "ValueError"
    /\ Cardinality(nodes) >= 2
    /\ SumOfDegrees(nodes) >= 2

\* C14 (as claimed): get_edges() on a graph whose identifiers are strings or
\* integers returns every undirected edge exactly once: (u, v) is returned iff u
\* and v are adjacent and str(u.id) < str(v.id), each adjacent pair is returned in
\* exactly one direction, and the number of pairs is half the sum of the degrees.
C14_GetEdgesEachEdgeOnce ==
    last.op = "get_edges" =>
        LET edges == last.list
            Returned_(u, v) == \E i \in 1..Len(edges) : edges[i] = <<u, v>>
        IN  /\ \A u \in nodes : \A v \in nodes :
                  Returned_(u, v) <=> (has_edge(u, v) /\ StrLess(Str(u), Str(v)))
            /\ \A i \in 1..Len(edges) : \A j \in 1..Len(edges) :
                  i # j => edges[i] # edges[j]
            /\ \A u \in nodes : \A v \in nodes :
                  has_edge(u, v) => (Returned_(u, v) <=> ~Returned_(v, u))
            /\ 2 * Len(edges) = SumOfDegrees(nodes)

\* C17 (as claimed): get_sorted_nodes_by_degree(graph) returns every node of the
\* graph once, and a node placed before another has a larger degree, or the same
\* degree and a lexicographically smaller identifier.
C17_SortedByDegreeThenId ==
    last.op = "get_sorted_nodes_by_degree" =>
        LET sorted == last.list
        IN  /\ Len(sorted) = Cardinality(nodes)
            /\ Range(sorted) = nodes
            /\ \A i \in 1..Len(sorted) : \A j \in 1..Len(sorted) :
                  i < j =>
                      \/ Len(adjacency_list[sorted[i]]) > Len(adjacency_list[sorted[j]])
                      \/ /\ Len(adjacency_list[sorted[i]]) = Len(adjacency_list[sorted[j]])
                         /\ StrLess(Str(sorted[i]), Str(sorted[j]))

\* C15: a color_graph(), is_valid_coloring() or get_chromaticity() call on a
\* solver leaves the graph as it was: the same node set and the same adjacency
\* list for every node.
C15_SolverCallsLeaveGraph ==
    [][ last'.op \in {"color_graph", "is_valid_coloring", "get_chromaticity"} =>
            (nodes' = nodes /\ adjacency_list' = adjacency_list) ]_vars

C15_Witness ==
    /\ Coloured /\ solver.kind = "greedy"
    /\ SumOfDegrees(nodes) >= 4
    /\ \E n \in nodes : adjacency_list[n] # StableSortById(adjacency_list[n])

\* self.coloring of an instance after color_graph() calls on it and on no other
\* instance, the graph as it is.
AloneColoring(inst) == ColoringAfter([inst EXCEPT !.coloring = EmptyColoring], iterOrder)

\* C16: with several instances bound to one graph and their color_graph() calls
\* interleaved in any order, each instance that has been run stores the colouring
\* it produces when run alone and its own timing, and a call on one instance
\* leaves the colouring and the timing of every other instance as they were.
C16_InstancesIndependent ==
    /\ [](\A i \in Instances :
            peers[i].called =>
                /\ peers[i].inst.coloring = AloneColoring(peers[i].inst)
                /\ peers[i].inst.execution_time =
                      IF peers[i].inst.kind = "greedy" THEN 0 ELSE peers[i].dur)
    /\ [][ \A i \in Instances : \A j \in Instances \ {i} :
              (last'.op = "color_graph" /\ last'.who = i) => peers'[j] = peers[j] ]_vars

C16_Witness ==
    /\ peers[1].called /\ peers[2].called
    /\ peers[1].inst.kind = "bf" /\ peers[2].inst.kind = "wp"
    /\ last.op = "color_graph" /\ last.who = 1
    /\ peers[1].inst.coloring # peers[2].inst.coloring
    /\ SumOfDegrees(nodes) >= 4

\* C18: get_first_available_color(S) is the smallest positive integer that is not
\* in S: 1 when 1 is not in S, and max(S) + 1 when S is exactly 1..max(S).
C18_FirstAvailableIsSmallestFree ==
    last.op = "get_first_available_color" =>
        LET S == last.colors
            c == last.n
        IN  /\ c >= 1
            /\ c \notin S
            /\ \A d \in 1..(c - 1) : d \in S
            /\ 1 \notin S => c = 1
            /\ (S # {} /\ S = 1..Max(S)) => c = Max(S) + 1

C18_Witness ==
    /\ last.op = "get_first_available_color"
    /\ last.colors = {1, 2, 4}
    /\ last.n = 3

\* Every two different nodes of the graph are adjacent: the graph is K_n.
IsComplete == \A a \in nodes : \A b \in nodes \ {a} : has_edge(a, b)

\* C19: on the complete graph K_n, n >= 1, the colouring each of the three
\* solvers returns has exactly n distinct colours (so Welsh-Powell and the exact
\* solver agree).
C19_CompleteGraphNeedsNColors ==
    (Coloured /\ nodes # {} /\ IsComplete) =>
        ColorCount(last.ret) = Cardinality(nodes)

C19_Witness ==
    /\ Coloured /\ solver.kind = "wp"
    /\ IsComplete
    /\ Cardinality(nodes) = 3
    /\ ColorCount(last.ret) = 3

\* The nodes reachable from a node of S along edges.
RECURSIVE ReachableFrom(_)
ReachableFrom(S) ==
    LET more == S \cup {b \in nodes : \E a \in S : has_edge(a, b)}
    IN  IF more = S THEN S ELSE ReachableFrom(more)

\* The graph is a cycle C_n, n >= 3: connected, every node with two neighbours.
IsCycle ==
    /\ Cardinality(nodes) >= 3
    /\ \A a \in nodes : Len(adjacency_list[a]) = 2
    /\ \A a \in nodes : ReachableFrom({a}) = nodes

\* C20: on a cycle graph C_n, n >= 3, the colouring of the exact solver has
\* exactly 3 distinct colours when n is odd and exactly 2 when n is even, and
\* get_chromaticity() reports that count.
C20_CycleChromaticNumber ==
    (solver.kind = "bf" /\ solver.graph = "G" /\ IsCycle) =>
        LET count == IF Cardinality(nodes) % 2 = 1 THEN 3 ELSE 2
        IN  /\ Coloured => ColorCount(last.ret) = count
            /\ (last.op = "get_chromaticity" /\ Fresh) => last.n = count

C20_Witness ==
    /\ solver.kind = "bf" /\ IsCycle
    /\ Cardinality(nodes) = 4
    /\ last.op = "get_chromaticity" /\ Fresh
    /\ last.n = 2

\* C21 (as claimed): on every non-empty graph the colouring Welsh-Powell returns
\* has at most as many distinct colours as the colouring the greedy solver in
\* natural order (ascending identifier) returns on the same graph.
C21_WelshPowellAtMostGreedy ==
    (Coloured /\ solver.kind = "wp" /\ nodes # {}) =>
        ColorCount(last.ret) <= ColorCount(greedy_color_graph("natural"))

\* C22 (as claimed): on every bipartite graph with at least one edge the colouring
\* Welsh-Powell returns has exactly 2 distinct colours.
C22_WelshPowellTwoColoursOnBipartite ==
    (Coloured /\ solver.kind = "wp" /\ SumOfDegrees(nodes) > 0 /\ HasProperColoring(2)) =>
        ColorCount(last.ret) = 2

\* C23: the greedy solver in natural order goes through all the nodes in ascending
\* lexicographic identifier order, gives each node the smallest positive integer
\* that is not the colour of a neighbour processed before it, and never changes a
\* colour it has assigned in the same call.
C23_GreedyNaturalFirstFit ==
    /\ []((GreedyBusy /\ solver.order_strategy = "natural") =>
            LET order == last.list
            IN  /\ Len(order) = Cardinality(nodes)
                /\ Range(order) = nodes
                /\ \A i \in 1..Len(order) : \A j \in 1..Len(order) :
                      i < j => ~StrLess(Str(order[j]), Str(order[i]))
                /\ DOMAIN solver.coloring = {order[i] : i \in 1..last.n}
                /\ \A i \in 1..last.n :
                      LET used == {solver.coloring[order[j]] :
                                      j \in {h \in 1..(i - 1) : has_edge(order[i], order[h])}}
                          c == solver.coloring[order[i]]
                      IN  /\ c >= 1
                          /\ c \notin used
                          /\ \A d \in 1..(c - 1) : d \in used)
    /\ [][ (GreedyBusy /\ solver.order_strategy = "natural") =>
              \A v \in DOMAIN solver.coloring :
                  v \in DOMAIN solver'.coloring /\ solver'.coloring[v] = solver.coloring[v]
         ]_vars

C23_Witness ==
    /\ GreedyBusy /\ solver.order_strategy = "natural"
    /\ hist.called /\ hist.stale
    /\ last.n = 3
    /\ last.list = <<101, 1, 10>>
    /\ solver.coloring = (101 :> 1 @@ 1 :> 2 @@ 10 :> 1)

\* C24: on every non-empty graph the exact solver's color_graph() call comes to
\* an end, and it ends with a complete proper colouring found at some
\* k <= min(maxDegree + 1, nodeCount): the loop over k never runs past that bound
\* and the return after the loop is not reached.
C24_ExactTerminatesWithinBound ==
    /\ []((ExactBusy /\ nodes # {}) =>
            /\ last.k >= 1
            /\ last.k <= Min(get_max_degree + 1, Cardinality(nodes))
            /\ last.pc = "found" => (DOMAIN last.work = nodes /\ NoConflict(last.work)))
    /\ [](nodes # {} => last.pc # "fallthrough")
    /\ ((ExactBusy /\ nodes # {}) ~> (Coloured /\ DOMAIN last.ret = nodes))

C24_Witness ==
    /\ ExactBusy /\ last.pc = "found"
    /\ Cardinality(nodes) = 3
    /\ IsComplete
    /\ last.k = 3

\* C25: the exact solver starts with k = 1 and only ever goes from k to k + 1; it
\* goes on to k + 1 only when the search with k colours has tried the last colour
\* for the first node and has failed everywhere (the graph has no proper
\* colouring with k colours); and once a search succeeds the call returns that
\* colouring without searching with any larger k.
C25_IncreasingKStopAtFirstSuccess ==
    /\ [][ (~ExactBusy /\ ExactBusy') => (last'.k = 1 /\ last'.pc = "k_loop") ]_vars
    /\ [][ (ExactBusy /\ ExactBusy' /\ last'.k # last.k) =>
              /\ last'.k = last.k + 1
              /\ last'.pc = "k_loop"
              /\ last.pc = "deleted" /\ last.color = last.k - 1
              /\ last.work = EmptyColoring
              /\ ~HasProperColoring(last.k) ]_vars
    /\ [][ (ExactBusy /\ last.pc = "found") =>
              /\ ~ExactBusy'
              /\ last'.op = "color_graph"
              /\ last'.ret = last.work
              /\ ColorCount(last'.ret) <= last.k ]_vars
    /\ [][ (ExactBusy /\ last.pc = "k_loop" /\ ExactBusy') =>
              (last'.k = last.k /\ last'.pc \in {"assigned", "found"}) ]_vars

C25_Witness ==
    /\ ExactBusy /\ last.pc = "found"
    /\ last.k = 2
    /\ Cardinality(nodes) = 3
    /\ SumOfDegrees(nodes) = 4

\* C27: at every step of the exact solver's search with k colours the nodes in the
\* working colouring are the first ones of the fixed node list, every colour in it
\* is one of 0..k-1, and the nodes other than the one assigned last have no
\* conflict along an edge; when the search with k colours has failed, every
\* assignment has been undone: the working colouring is empty.
C27_SearchKeepsSafePrefix ==
    ExactBusy =>
        LET depth == Cardinality(DOMAIN last.work)
        IN  /\ depth <= Len(iterOrder)
            /\ DOMAIN last.work = {iterOrder[i] : i \in 1..depth}
            /\ \A v \in DOMAIN last.work : last.work[v] \in 0..(last.k - 1)
            /\ depth > 0 => NoConflict(Delete(last.work, iterOrder[depth]))
            /\ last.pc \in {"deleted", "found"} => NoConflict(last.work)
            /\ last.pc = "k_loop" => last.work = EmptyColoring

C27_Witness ==
    /\ ExactBusy /\ last.pc = "k_loop"
    /\ last.k = 3
    /\ IsComplete /\ Cardinality(nodes) = 3
    /\ last.work = EmptyColoring

\* self.coloring after color_graph() on a newly constructed solver of the kind
\* and strategy of the held one, on the graph as it is.
FreshResult ==
    IF solver.kind = "bf" THEN brute_force_impl(iterOrder, EmptyColoring)
    ELSE IF solver.kind = "wp" THEN welsh_powell_impl(EmptyColoring)
    ELSE greedy_color_graph(solver.order_strategy)

\* C26 (as claimed): a color_graph() call on an instance that already stores a
\* colouring returns what a newly constructed solver of the same type returns on
\* the graph as it is at the time of the call, also when nodes or edges were added
\* to the graph between the two calls.
C26_RecomputesFromScratch ==
    (Coloured /\ solver.graph = "G" /\ last.prev # EmptyColoring) =>
        last.ret = FreshResult

\* C28 (as claimed): the colours of a solver's result on a non-empty graph have no
\* gap: the exact solver's result uses exactly the colours 0..c-1 and a
\* heuristic's result exactly 1..m, so that get_chromaticity() is the largest
\* colour plus 1 (exact) or the largest colour (heuristics).
C28_ColoursFormGapFreeRange ==
    /\ (Coloured /\ solver.graph = "G" /\ nodes # {}) =>
           Range(last.ret) = IF solver.kind = "bf"
                             THEN 0..(ColorCount(last.ret) - 1)
                             ELSE 1..ColorCount(last.ret)
    /\ (last.op = "get_chromaticity" /\ hist.called /\ hist.ret # EmptyColoring) =>
           last.n = IF solver.kind = "bf"
                    THEN Max(Range(hist.ret)) + 1
                    ELSE Max(Range(hist.ret))

\* C29 (as claimed): on every non-empty graph the colouring a Welsh-Powell solver
\* returns is, node for node, the colouring a greedy solver constructed with
\* order_strategy = "degree" returns on the same graph.
C29_GreedyByDegreeIsWelshPowell ==
    /\ (Coloured /\ solver.kind = "wp" /\ nodes # {}) =>
           last.ret = greedy_color_graph("degree")
    /\ (Coloured /\ solver.kind = "greedy" /\ solver.order_strategy = "degree") =>
           last.ret = welsh_powell_impl(EmptyColoring)

\* C30 (as claimed): in a greedy or Welsh-Powell result every node has a colour of
\* at most its degree plus 1, so the result has at most maxDegree + 1 distinct
\* colours; in a Welsh-Powell result the node at position i (counted from 1) of
\* the degree order has a colour of at most i.
C30_ColourAtMostDegreePlusOne ==
    (Coloured /\ solver.kind \in {"greedy", "wp"} /\ nodes # {}) =>
        /\ \A v \in nodes : last.ret[v] >= 1 /\ last.ret[v] <= get_degree(v) + 1
        /\ ColorCount(last.ret) <= get_max_degree + 1
        /\ solver.kind = "wp" =>
              LET sorted_nodes == get_sorted_nodes_by_degree
              IN  \A i \in 1..Len(sorted_nodes) : last.ret[sorted_nodes[i]] <= i
====
